---- MODULE Spec2Model ----
(***************************************************************************)
(* Model of the Portfolio API (src/main.py): a FastAPI application with    *)
(* five read-only GET routes that build fixed pydantic objects, the        *)
(* contact endpoint POST /api/contact and the diagnostic endpoint          *)
(* GET /test that probes an optional `database` module.                    *)
(*                                                                         *)
(* Representation.                                                         *)
(*  - A Python str that the code inspects (the contact fields, exception   *)
(*    messages) is a sequence of characters, so that truthiness, strip()   *)
(*    and the slice [:50] are computed and not assumed.                    *)
(*  - A str the code only passes along is a TLA+ string.  The module is    *)
(*    ASCII: the emoji of the source's literals are written as tags,       *)
(*    "[ok]" for U+2705, "[x]" for U+274C and "[!]" for U+26A0 U+FE0F.     *)
(*  - An f-string is the pair of its literal prefix and its formatted      *)
(*    argument (Fmt); a literal string has the empty argument (Lit).       *)
(*  - A URL given to an HttpUrl field is the record of its scheme, host    *)
(*    and remainder, which is what the field's validation looks at.        *)
(*  - Python's None is the string "None" (NoUrl for a URL field).          *)
(*  - A JSON object of a request is the set of its members <<key, value>>. *)
(*  - A JSON value that is a str in one response and a list in another    *)
(*    (the detail of an error), and a response body that is a JSON array,  *)
(*    carry their JSON type: JStr, JList.                                  *)
(***************************************************************************)
EXTENDS Integers, Sequences, FiniteSets, TLC

VARIABLES
    env,      \* os.environ of the process: DATABASE_URL and DATABASE_NAME
    req,      \* the request handled last: [route, body]
    resp,     \* the response to it: [status, body]
    probe,    \* what GET /test met in its collaborator: <<>> or <<situation>>
    watch,    \* history: the read-only route whose responses are compared
    first,    \* history: <<>> or <<the first response of route watch>>
    between   \* history: statuses of the POST /api/contact requests handled
              \* since that first response

vars == <<env, req, resp, probe, watch, first, between>>

(***************************************************************************)
(* Bounds of the model and constants of the program.                       *)
(***************************************************************************)
\* longest list returned by list_collection_names in the model
MaxNames == 11
\* longest exception message in the model
MaxMsgLen == 51
\* collections[:10]
SliceLen == 10
\* str(e)[:50]
TruncLen == 50

Min(a, b) == IF a <= b THEN a ELSE b

\* the slice left out: the whole sequence
TakeAll(s, n) == s

\* Python's s[:n] for n >= 0
Take(s, n) == SubSeq(s, 1, Min(n, Len(s)))

\* Python truthiness of a str
Truthy(s) == Len(s) > 0

Whitespace == {" "}

RECURSIVE LStrip(_)
LStrip(s) == IF Len(s) > 0 /\ Head(s) \in Whitespace THEN LStrip(Tail(s)) ELSE s

RECURSIVE RStrip(_)
RStrip(s) ==
    IF Len(s) > 0 /\ s[Len(s)] \in Whitespace
    THEN RStrip(SubSeq(s, 1, Len(s) - 1))
    ELSE s

\* str.strip(): what "trimming" a field would be
Strip(s) == RStrip(LStrip(s))

(***************************************************************************)
(* Responses.  FastAPI answers 200 with the handler's return value, the    *)
(* status and detail of a raised HTTPException, 422 when the request body  *)
(* does not validate against the declared model, and 500 when the handler  *)
(* raises anything else.                                                   *)
(***************************************************************************)
Lit(s) == [text |-> s, arg |-> <<>>]
Fmt(prefix, a) == [text |-> prefix, arg |-> a]

JStr(s) == [str |-> s]
JList(l) == [list |-> l]

Ok(body) == [status |-> 200, body |-> body]
HTTPException(code, detail) == [status |-> code, body |-> [detail |-> JStr(detail)]]
ServerError == [status |-> 500, body |-> [text |-> "Internal Server Error"]]

Url(scheme, host, rest) == [scheme |-> scheme, host |-> host, rest |-> rest]

\* pydantic's HttpUrl: an http or https URL with a host
HttpUrl(u) == u.scheme \in {"http", "https"} /\ u.host # ""

\* an Optional[HttpUrl] field left at its default, None
NoUrl == Url("None", "", "")

\* Optional[HttpUrl]
OptionalHttpUrl(u) == u = NoUrl \/ HttpUrl(u)

(***************************************************************************)
(* The pydantic models: constructing one validates its fields; a           *)
(* ValidationError raised inside a handler is a 500.                       *)
(***************************************************************************)
Profile(p) == IF OptionalHttpUrl(p.avatar) THEN Ok(p) ELSE ServerError

Skill(name, level, category) ==
    [name |-> name, level |-> level, category |-> category]

Experience(e) == e

ProjectValid(p) ==
    OptionalHttpUrl(p.repo) /\ OptionalHttpUrl(p.live) /\ OptionalHttpUrl(p.image)

Projects(ps) ==
    IF \A i \in 1..Len(ps) : ProjectValid(ps[i]) THEN Ok(JList(ps)) ELSE ServerError

(***************************************************************************)
(* The read-only handlers.                                                 *)
(***************************************************************************)
read_root_greeting == [message |-> Lit("Portfolio Backend Running")]

\* a greeting that reads what the last accepted contact request left behind
read_root_stateful ==
    Ok([message |->
          IF resp.status = 200 /\ req.route = "/api/contact"
          THEN Fmt("Portfolio Backend Running for ", resp.body.name)
          ELSE Lit("Portfolio Backend Running")])

read_root == Ok(read_root_greeting)

\* the profile built with the mailto: URI as its avatar
get_profile_bad_avatar ==
    Profile([
        name |-> "Your Name",
        title |-> "Software Engineer",
        location |-> "Remote / Worldwide",
        bio |-> "I craft scalable web apps and delightful developer experiences. I specialize in React, TypeScript, Node.js, and cloud-native backends.",
        avatar |-> Url("mailto", "", "you@example.com"),
        socials |-> [
            github |-> "https://github.com/",
            linkedin |-> "https://linkedin.com/in/",
            twitter |-> "https://twitter.com/",
            email |-> "mailto:you@example.com"]])

get_profile ==
    Profile([
        name |-> "Your Name",
        title |-> "Software Engineer",
        location |-> "Remote / Worldwide",
        bio |-> "I craft scalable web apps and delightful developer experiences. I specialize in React, TypeScript, Node.js, and cloud-native backends.",
        avatar |-> Url("https", "avatars.githubusercontent.com", "/u/9919?s=200&v=4"),
        socials |-> [
            github |-> "https://github.com/",
            linkedin |-> "https://linkedin.com/in/",
            twitter |-> "https://twitter.com/",
            email |-> "mailto:you@example.com"]])

get_skills ==
    Ok(JList(<<
        Skill("JavaScript", "Expert", "Frontend"),
        Skill("TypeScript", "Advanced", "Frontend"),
        Skill("React", "Advanced", "Frontend"),
        Skill("Node.js", "Advanced", "Backend"),
        Skill("Python", "Advanced", "Backend"),
        Skill("FastAPI", "Advanced", "Backend"),
        Skill("MongoDB", "Advanced", "Database"),
        Skill("PostgreSQL", "Intermediate", "Database"),
        Skill("Docker", "Intermediate", "DevOps"),
        Skill("AWS", "Intermediate", "Cloud")
    >>))

get_experience ==
    Ok(JList(<<
        Experience([
            company |-> "Tech Co.",
            role |-> "Senior Software Engineer",
            start |-> "2022",
            end |-> "Present",
            location |-> "Remote",
            achievements |-> <<
                "Led migration to micro frontends across 5 products",
                "Improved build times by 40% with module federation",
                "Mentored 6 engineers and introduced better code review practices">>]),
        Experience([
            company |-> "Startup XYZ",
            role |-> "Full-Stack Engineer",
            start |-> "2020",
            end |-> "2022",
            location |-> "San Francisco, CA",
            achievements |-> <<
                "Shipped real-time collaboration features used by 50k+ users",
                "Designed FastAPI backend with WebSocket event system">>])
    >>))

get_projects ==
    Projects(<<
        [name |-> "DevDash",
         description |-> "Developer productivity dashboard with integrations.",
         tech |-> <<"React", "Vite", "Tailwind", "FastAPI">>,
         repo |-> Url("https", "github.com", "/"),
         live |-> Url("https", "example.com", ""),
         image |-> Url("https", "images.unsplash.com",
                       "/photo-1555066931-4365d14bab8c?q=80&w=1200&auto=format&fit=crop")],
        [name |-> "TaskFlow",
         description |-> "Team task management with real-time updates.",
         tech |-> <<"TypeScript", "React", "MongoDB", "Socket.io">>,
         repo |-> Url("https", "github.com", "/"),
         live |-> Url("https", "example.com", ""),
         image |-> Url("https", "images.unsplash.com",
                       "/photo-1515879218367-8466d910aaa4?q=80&w=1200&auto=format&fit=crop")],
        [name |-> "API Kit",
         description |-> "Toolkit for building typed APIs quickly.",
         tech |-> <<"Python", "FastAPI", "Pydantic">>,
         repo |-> Url("https", "github.com", "/"),
         live |-> Url("https", "example.com", ""),
         image |-> Url("https", "images.unsplash.com",
                       "/photo-1518770660439-4636190af475?q=80&w=1200&auto=format&fit=crop")]
    >>)

(***************************************************************************)
(* POST /api/contact.  The body is a JSON object: the set of the members   *)
(* <<field, value>> it carries, one at most for a field.                   *)
(***************************************************************************)
FieldOrder == <<"name", "email", "message">>
Fields == {FieldOrder[i] : i \in 1..Len(FieldOrder)}

\* the texts a field takes in the model: empty, whitespace only, ordinary
Texts == {<<>>, <<" ">>, <<"a">>}

Bodies ==
    UNION {{{<<f, v[f]>> : f \in S} : v \in [S -> Texts]} : S \in SUBSET Fields}

Members(body) == {m[1] : m \in body}
Value(body, f) == (CHOOSE m \in body : m[1] = f)[2]

IsMissing(body, f) == f \notin Members(body)

\* the 422 of a body with required fields missing: one error per field
RequestValidationError(body) ==
    LET missing == SelectSeq(FieldOrder, LAMBDA f : IsMissing(body, f))
    IN  [status |-> 422,
         body |-> [detail |-> JList([i \in 1..Len(missing) |->
                                 [type |-> "missing", loc |-> <<"body", missing[i]>>]])]]

\* a missing field read as the empty string: no field is required
ContactMessageDefaults(body) ==
    [ok |-> TRUE,
     msg |-> [f \in Fields |-> IF IsMissing(body, f) THEN <<>> ELSE Value(body, f)]]

\* class ContactMessage: three required str fields
ContactMessage(body) ==
    IF \E f \in Fields : IsMissing(body, f)
    THEN [ok |-> FALSE, error |-> RequestValidationError(body)]
    ELSE [ok |-> TRUE, msg |-> [f \in Fields |-> Value(body, f)]]

\* the fields trimmed before the check and the echo
submit_contact_strip(msg) ==
    IF ~Truthy(Strip(msg.name)) \/ ~Truthy(Strip(msg.email)) \/ ~Truthy(Strip(msg.message))
    THEN HTTPException(400, "All fields are required")
    ELSE Ok([status |-> "received", name |-> Strip(msg.name)])

\* the check without its third operand
submit_contact_two_fields(msg) ==
    IF ~Truthy(msg.name) \/ ~Truthy(msg.email)
    THEN HTTPException(400, "All fields are required")
    ELSE Ok([status |-> "received", name |-> msg.name])

\* the acknowledgment echoing another field
submit_contact_echo_email(msg) ==
    IF ~Truthy(msg.name) \/ ~Truthy(msg.email) \/ ~Truthy(msg.message)
    THEN HTTPException(400, "All fields are required")
    ELSE Ok([status |-> "received", name |-> msg.email])

\* def submit_contact(msg: ContactMessage)
submit_contact(msg) ==
    IF ~Truthy(msg.name) \/ ~Truthy(msg.email) \/ ~Truthy(msg.message)
    THEN HTTPException(400, "All fields are required")
    ELSE Ok([status |-> "received", name |-> msg.name])

\* the route: validate the body, then call the handler
post_contact(body) ==
    LET parsed == ContactMessage(body)
    IN  IF parsed.ok THEN submit_contact(parsed.msg) ELSE parsed.error

(***************************************************************************)
(* GET /test.  What the handler meets in its collaborator, the optional    *)
(* module `database`, is a situation:                                      *)
(*   import  "absent": there is no module `database`;                      *)
(*           "raises": the module is there and importing it raises exc;    *)
(*           "ok":     `from database import db` binds db;                 *)
(*   db      "None" or "Db";                                               *)
(*   name    "noattr": hasattr(db, 'name') is False; "value": db.name is   *)
(*           a string; "raises": reading db.name raises exc;               *)
(*   list    "returns": list_collection_names() returns names;             *)
(*           "raises": it raises exc.                                      *)
(* An exception is its class and its message.  The handler's except        *)
(* clauses tell ImportError (with its subclass ModuleNotFoundError) from   *)
(* the other subclasses of Exception.                                      *)
(***************************************************************************)
Message(n) == [i \in 1..n |-> i]
MsgLens == {0, 1, TruncLen, MaxMsgLen}

Names(n, reversed) == [i \in 1..n |-> IF reversed THEN n + 1 - i ELSE i]
NameLens == {0, 1, SliceLen, MaxNames}
NameLists == {Names(n, rv) : n \in NameLens, rv \in BOOLEAN}

NoExc == [cls |-> "", msg |-> <<>>]
ModuleNotFoundError == [cls |-> "ModuleNotFoundError", msg |-> Message(1)]
Raisable == [cls : {"ImportError", "Exception"}, msg : {Message(n) : n \in MsgLens}]

IsImportError(x) == x.cls \in {"ImportError", "ModuleNotFoundError"}
IsException(x) == x.cls \in {"Exception", "ImportError", "ModuleNotFoundError"}

Situation(import, db, name, list, exc, names) ==
    [import |-> import, db |-> db, name |-> name, list |-> list,
     exc |-> exc, names |-> names]

Situations ==
    {Situation("absent", "None", "noattr", "returns", ModuleNotFoundError, <<>>)}
    \cup {Situation("raises", "None", "noattr", "returns", x, <<>>) : x \in Raisable}
    \cup {Situation("ok", "None", "noattr", "returns", NoExc, <<>>)}
    \cup {Situation("ok", "Db", "raises", "returns", x, <<>>) : x \in Raisable}
    \cup {Situation("ok", "Db", n, "raises", x, <<>>) :
            n \in {"noattr", "value"}, x \in Raisable}
    \cup {Situation("ok", "Db", n, "returns", NoExc, l) :
            n \in {"noattr", "value"}, l \in NameLists}

\* an environment variable: unset, or set to a str
EnvValues == {[set |-> FALSE, value |-> <<>>],
              [set |-> TRUE, value |-> <<>>],
              [set |-> TRUE, value |-> <<"m">>]}
Envs == [{"DATABASE_URL", "DATABASE_NAME"} -> EnvValues]

\* bool(os.getenv(k)): None and "" are falsy
getenv(e, k) == e[k].set /\ Truthy(e[k].value)

\* the dict the handler starts from
InitialResponse ==
    [backend |-> "[ok] Running",
     database |-> Lit("[x] Not Available"),
     database_url |-> "None",
     database_name |-> "None",
     connection_status |-> "Not Connected",
     collections |-> <<>>]

\* the outcome of a block: the dict as it stands and the exception leaving
\* the block, NoExc when it ends normally
Normal(r) == [response |-> r, exc |-> NoExc]
Raise(r, x) == [response |-> r, exc |-> x]

\* the inner try with no handler of its own
ListCollectionsUncaught(c, r) ==
    IF c.list = "raises"
    THEN Raise(r, c.exc)
    ELSE Normal([r EXCEPT !.collections = Take(c.names, SliceLen),
                          !.database = Lit("[ok] Connected & Working")])

\* the inner try: list the collections
ListCollections(c, r) ==
    IF c.list = "raises"
    THEN IF IsException(c.exc)
         THEN Normal([r EXCEPT !.database =
                  Fmt("[!]  Connected but Error: ", Take(c.exc.msg, TruncLen))])
         ELSE Raise(r, c.exc)
    ELSE Normal([r EXCEPT !.collections = Take(c.names, SliceLen),
                          !.database = Lit("[ok] Connected & Working")])

\* the body of the outer try
ProbeDb(c, r) ==
    IF c.import # "ok" THEN Raise(r, c.exc)
    ELSE IF c.db = "None"
    THEN Normal([r EXCEPT !.database = Lit("[!]  Available but not initialized")])
    ELSE LET r1 == [r EXCEPT !.database = Lit("[ok] Available"),
                             !.database_url = "[ok] Configured"]
         IN  IF c.name = "raises" THEN Raise(r1, c.exc)
             ELSE LET r2 == [r1 EXCEPT
                        !.database_name =
                            IF c.name = "value" THEN "portfolio" ELSE "[ok] Connected",
                        !.connection_status = "Connected"]
                  IN  ListCollections(c, r2)

\* the outer try with its last clause, except Exception, left out
HandleOuterImportOnly(o) ==
    IF o.exc = NoExc THEN o
    ELSE IF IsImportError(o.exc)
    THEN Normal([o.response EXCEPT !.database =
             Lit("[x] Database module not found (run enable-database first)")])
    ELSE o

\* the except clauses of the outer try
HandleOuter(o) ==
    IF o.exc = NoExc THEN o
    ELSE IF IsImportError(o.exc)
    THEN Normal([o.response EXCEPT !.database =
             Lit("[x] Database module not found (run enable-database first)")])
    ELSE IF IsException(o.exc)
    THEN Normal([o.response EXCEPT !.database =
             Fmt("[x] Error: ", Take(o.exc.msg, TruncLen))])
    ELSE o

\* the two fields written only where the probe left them unset
ReportEnvIfUnset(r, e) ==
    [r EXCEPT
       !.database_url = IF r.database_url # "None" THEN @
                        ELSE IF getenv(e, "DATABASE_URL") THEN "[ok] Set" ELSE "[x] Not Set",
       !.database_name = IF r.database_name # "None" THEN @
                         ELSE IF getenv(e, "DATABASE_NAME") THEN "[ok] Set" ELSE "[x] Not Set"]

\* after the try: the two fields are written from the environment
ReportEnv(r, e) ==
    [r EXCEPT
       !.database_url = IF getenv(e, "DATABASE_URL") THEN "[ok] Set" ELSE "[x] Not Set",
       !.database_name = IF getenv(e, "DATABASE_NAME") THEN "[ok] Set" ELSE "[x] Not Set"]

\* def test_database(): an exception leaving the outer try leaves the handler
test_database(c, e) ==
    LET o == HandleOuter(ProbeDb(c, InitialResponse))
    IN  IF o.exc # NoExc THEN ServerError ELSE Ok(ReportEnv(o.response, e))

(***************************************************************************)
(* The service: one action per route.  A request is handled whole.         *)
(***************************************************************************)
GetRoutes == {"/", "/api/profile", "/api/skills", "/api/experience", "/api/projects"}

NoBody == {}
NoRequest == [route |-> "", body |-> NoBody]
NoResponse == [status |-> 0, body |-> [none |-> "None"]]

Init ==
    /\ env \in Envs
    /\ req = NoRequest
    /\ resp = NoResponse
    /\ probe = <<>>
    /\ watch \in GetRoutes
    /\ first = <<>>
    /\ between = {}

\* the history variables record the request just answered
Observe ==
    /\ first' = IF req'.route = watch /\ first = <<>> THEN <<resp'>> ELSE first
    /\ between' = IF req'.route = "/api/contact" /\ first # <<>>
                  THEN between \cup {resp'.status}
                  ELSE between
    /\ UNCHANGED <<env, watch>>

ReadRoot ==
    /\ req' = [route |-> "/", body |-> NoBody]
    /\ resp' = read_root
    /\ probe' = <<>>
    /\ Observe

GetProfile ==
    /\ req' = [route |-> "/api/profile", body |-> NoBody]
    /\ resp' = get_profile
    /\ probe' = <<>>
    /\ Observe

GetSkills ==
    /\ req' = [route |-> "/api/skills", body |-> NoBody]
    /\ resp' = get_skills
    /\ probe' = <<>>
    /\ Observe

GetExperience ==
    /\ req' = [route |-> "/api/experience", body |-> NoBody]
    /\ resp' = get_experience
    /\ probe' = <<>>
    /\ Observe

GetProjects ==
    /\ req' = [route |-> "/api/projects", body |-> NoBody]
    /\ resp' = get_projects
    /\ probe' = <<>>
    /\ Observe

SubmitContact ==
    \E body \in Bodies :
        /\ req' = [route |-> "/api/contact", body |-> body]
        /\ resp' = post_contact(body)
        /\ probe' = <<>>
        /\ Observe

TestDatabase ==
    \E c \in Situations :
        /\ req' = [route |-> "/test", body |-> NoBody]
        /\ resp' = test_database(c, env)
        /\ probe' = <<c>>
        /\ Observe

Next ==
    \/ ReadRoot
    \/ GetProfile
    \/ GetSkills
    \/ GetExperience
    \/ GetProjects
    \/ SubmitContact
    \/ TestDatabase

Spec == Init /\ [][Next]_vars

(***************************************************************************)
(* The claims.  Each is stated of the request answered last (req), its     *)
(* response (resp) and, for GET /test, the situation it met (probe).       *)
(***************************************************************************)
IsContact == req.route = "/api/contact"
IsTest == req.route = "/test"
Complete(body) == Fields \subseteq Members(body)
AllNonEmpty(body) == \A f \in Fields : Value(body, f) # <<>>
SomeEmpty(body) == \E f \in Fields : Value(body, f) = <<>>
WhitespaceOnly(s) == Len(s) > 0 /\ \A i \in 1..Len(s) : s[i] \in Whitespace
Rejected400 ==
    /\ resp.status = 400
    /\ resp.body = [detail |-> JStr("All fields are required")]

\* C1: a POST /api/contact whose body has name, email and message all
\* present and non-empty is answered 200 with exactly
\* {status: "received", name: N}, N the name sent, unchanged.
C1_AcceptedEchoesName ==
    (IsContact /\ Complete(req.body) /\ AllNonEmpty(req.body))
        => /\ resp.status = 200
           /\ resp.body = [status |-> "received", name |-> Value(req.body, "name")]

C1_Witness ==
    /\ IsContact /\ Complete(req.body)
    /\ Value(req.body, "name") = <<"a">> /\ Value(req.body, "email") = <<" ">>
    /\ Value(req.body, "message") = <<"a">>
    /\ resp.status = 200 /\ resp.body["name"] = <<"a">>

\* C2: a POST /api/contact that carries the three fields, at least one of
\* them the empty string (whichever, whatever the others contain), is
\* answered 400 "All fields are required" and gets no success body.
C2_EmptyFieldRejected ==
    (IsContact /\ Complete(req.body) /\ SomeEmpty(req.body))
        => /\ Rejected400
           /\ "status" \notin DOMAIN resp.body

C2_Witness ==
    /\ IsContact /\ Complete(req.body)
    /\ Value(req.body, "name") = <<"a">> /\ Value(req.body, "email") = <<"a">>
    /\ Value(req.body, "message") = <<>>
    /\ resp.status = 400

\* C3 as stated: a field is empty after trimming, so a request in which
\* name, email or message is only whitespace is rejected with 400
\* "All fields are required", like a request with an empty field.
C3_WhitespaceRejected ==
    (IsContact /\ Complete(req.body)
       /\ \E f \in Fields : WhitespaceOnly(Value(req.body, f)))
        => Rejected400

\* C3 amended: no field is trimmed.  A request that carries the three
\* fields, one of them only whitespace, is rejected exactly when some field
\* is the empty string; otherwise it is accepted with 200 and the name is
\* echoed as sent, untrimmed.
C3_WhitespaceAccepted ==
    (IsContact /\ Complete(req.body)
       /\ \E f \in Fields : WhitespaceOnly(Value(req.body, f)))
        => IF SomeEmpty(req.body)
           THEN Rejected400
           ELSE /\ resp.status = 200
                /\ resp.body = [status |-> "received", name |-> Value(req.body, "name")]

C3_Witness ==
    /\ IsContact /\ Complete(req.body)
    /\ WhitespaceOnly(Value(req.body, "name"))
    /\ WhitespaceOnly(Value(req.body, "email"))
    /\ WhitespaceOnly(Value(req.body, "message"))
    /\ resp.status = 200 /\ resp.body["name"] = <<" ">>

C5_TestNeverFails ==
    IsTest => /\ resp.status = 200
              /\ resp.body.backend = "[ok] Running"

C5_Witness ==
    /\ IsTest
    /\ probe[1].import = "ok" /\ probe[1].db = "Db" /\ probe[1].name = "raises"
    /\ probe[1].exc.cls = "Exception"
    /\ resp.status = 200

C7_GetIsRepeatable ==
    req.route = watch => (first # <<>> /\ resp = first[1])

C7_Witness ==
    /\ req.route = watch
    /\ watch = "/api/profile"
    /\ between = {200, 400, 422}
    /\ resp = first[1]

Healthy == Lit("[ok] Connected & Working")
NotFound == Lit("[x] Database module not found (run enable-database first)")
NotInitialized == Lit("[!]  Available but not initialized")
ListingReached(c) == c.import = "ok" /\ c.db = "Db" /\ c.name # "raises"
ListingRaises(c) == ListingReached(c) /\ c.list = "raises"
\* an exception raised by the import or by the name access
OutsideListing(c) ==
    \/ c.import = "raises"
    \/ c.import = "ok" /\ c.db = "Db" /\ c.name = "raises"

\* C8 as stated: database is "[ok] Connected & Working" iff the module
\* imported, db is not None and neither the name access nor the listing
\* raised; it is the "module not found" string when the module is absent,
\* "Available but not initialized" when db is None, "Connected but Error"
\* when the listing raises, and "[x] Error" for any other exception.
C8_StatusByCase ==
    IsTest =>
        LET c == probe[1]
            d == resp.body.database
        IN  /\ d = Healthy <=> (ListingReached(c) /\ c.list = "returns")
            /\ c.import = "absent" => d = NotFound
            /\ (c.import = "ok" /\ c.db = "None") => d = NotInitialized
            /\ ListingRaises(c) => d.text = "[!]  Connected but Error: "
            /\ OutsideListing(c) => d.text = "[x] Error: "

\* C8 amended: as stated, but the "module not found" string is reported
\* for every ImportError raised by the import or by the name access, with
\* the module absent or present; "[x] Error" is reported for the other
\* exceptions these two raise.  The two error strings carry the first 50
\* characters of the exception's message.
C8_StatusByException ==
    IsTest =>
        LET c == probe[1]
            d == resp.body.database
            cut == [i \in 1..Min(TruncLen, Len(c.exc.msg)) |-> c.exc.msg[i]]
        IN  /\ d = Healthy <=> (ListingReached(c) /\ c.list = "returns")
            /\ c.import = "absent" => d = NotFound
            /\ (c.import = "ok" /\ c.db = "None") => d = NotInitialized
            /\ ListingRaises(c) => d = [text |-> "[!]  Connected but Error: ", arg |-> cut]
            /\ (OutsideListing(c) /\ IsImportError(c.exc)) => d = NotFound
            /\ (OutsideListing(c) /\ ~IsImportError(c.exc))
                  => d = [text |-> "[x] Error: ", arg |-> cut]

C8_Witness ==
    /\ IsTest
    /\ probe[1].import = "raises"
    /\ probe[1].exc.cls = "ImportError"
    /\ resp.body.database = NotFound

\* C9: in every GET /test response database_url is "[ok] Set" if
\* DATABASE_URL is set to a non-empty value and "[x] Not Set" otherwise,
\* database_name likewise by DATABASE_NAME; neither depends on the
\* collaborator, and the values written while probing never appear.
C9_EnvFields ==
    IsTest =>
        /\ resp.body.database_url =
              IF env["DATABASE_URL"].set /\ env["DATABASE_URL"].value # <<>>
              THEN "[ok] Set" ELSE "[x] Not Set"
        /\ resp.body.database_name =
              IF env["DATABASE_NAME"].set /\ env["DATABASE_NAME"].value # <<>>
              THEN "[ok] Set" ELSE "[x] Not Set"
        /\ {resp.body.database_url, resp.body.database_name}
              \cap {"[ok] Configured", "portfolio", "[ok] Connected", "None"} = {}

C9_Witness ==
    /\ IsTest
    /\ ListingReached(probe[1]) /\ probe[1].name = "value"
    /\ env["DATABASE_URL"].set /\ env["DATABASE_URL"].value = <<>>
    /\ resp.body.database_url = "[x] Not Set"
    /\ env["DATABASE_NAME"].value # <<>>
    /\ resp.body.database_name = "[ok] Set"

\* C10: collections is the first min(10, n) of the n names the listing
\* returned, in their order, and empty in every other case; it has at most
\* 10 entries and is non-empty only when database is
\* "[ok] Connected & Working".
C10_Collections ==
    IsTest =>
        LET c == probe[1]
            l == resp.body.collections
        IN  /\ (ListingReached(c) /\ c.list = "returns")
                => /\ Len(l) = Min(SliceLen, Len(c.names))
                   /\ \A i \in 1..Len(l) : l[i] = c.names[i]
            /\ ~(ListingReached(c) /\ c.list = "returns") => l = <<>>
            /\ Len(l) <= SliceLen
            /\ l # <<>> => resp.body.database = Healthy

C10_Witness ==
    /\ IsTest
    /\ Len(probe[1].names) > SliceLen
    /\ probe[1].names[1] > probe[1].names[2]
    /\ Len(resp.body.collections) = SliceLen

====
